---- MODULE Spec2Model ----
(***************************************************************************)
(* divide_and_conquer.py: the copying quicksort (partition, quicksort),    *)
(* the in-place quicksort (prtn, qsrt_bounded, qsrt), their tests against  *)
(* list.sort, the benchmark harness (timer, time_srt) and the program      *)
(* entry (run_tests, run_timers).                                          *)
(*                                                                         *)
(* Python lists are objects: the variable heap is the object store, a      *)
(* reference is an index into it, and a list value is a TLA+ sequence      *)
(* (Python index i is TLA+ index i + 1).  The copying sort is a function   *)
(* from a store and a reference to a store and a reference; the in-place   *)
(* sort runs statement by statement on a call stack.                       *)
(***************************************************************************)
EXTENDS Integers, Sequences, FiniteSets

VARIABLES
    entry,      \* the function the run entered through
    pc,         \* position of the driver (test body, run_tests, time_srt)
    exc,        \* the exception that ended the run, "" when none
    heap,       \* object store: sequence of list values
    lst,        \* reference held by the test's parameter lst (0: unset)
    q,          \* reference held by the test's local q (0: unset)
    ret,        \* value returned by the last completed call
    stack,      \* call stack of qsrt_bounded / prtn frames, top last
    lastAcc,    \* the indices the last statement read and wrote
    returned,   \* history: the frame whose call returned in the last step
    orig,       \* history: the input list's value when the entry was called
    heap0,      \* history: the store when quicksort / partition was called
    ti,         \* run_tests / run_timers: index of the current test or timer
    ex,         \* @given: number of examples already run for the current test
    log,        \* history: tests passed, timers called, measurements begun
    sort,       \* time_srt parameter
    generator,  \* time_srt parameter
    n_lists,    \* time_srt parameter
    minlen,     \* time_srt parameter
    maxlen,     \* time_srt parameter
    len,        \* time_srt loop variable (the exponent)
    lists,      \* timeit namespace: the sequences made by setup
    rep,        \* timeit: executions of stmt completed
    len_it,     \* time_srt: the next value of range(minlen, maxlen + 1)
    res,        \* time_srt: the report, header first
    clock,      \* the timer's clock
    t0,         \* clock value when the running timing region opened
    timing,     \* number of timing regions currently open
    nextId,     \* number of sequences generated so far
    stdout      \* what print has written, one entry per call

vars == <<entry, pc, exc, heap, lst, q, ret, stack, lastAcc, returned, orig, heap0,
          ti, ex, log, sort, generator, n_lists, minlen, maxlen, len, lists,
          rep, len_it, res, clock, t0, timing, nextId, stdout>>

testVars == <<entry, pc, exc, heap, lst, q, ret, stack, lastAcc, returned, orig,
              heap0>>
mainVars == <<ti, ex, log>>
timerVars == <<sort, generator, n_lists, minlen, maxlen, len, lists, rep,
               len_it, res, clock, t0, timing, nextId, stdout>>

----------------------------------------------------------------------------
(* Bounds of the explored inputs.                                          *)

MaxLen == 3         \* longest input list
MaxVal == 2         \* integers are drawn from 0..MaxVal
MaxExamples == 2    \* examples a @given test runs
MaxNLists == 2      \* time_srt n_lists in 0..MaxNLists (unit runs)
MaxExp == 2         \* time_srt minlen, maxlen in 0..MaxExp (unit runs)

----------------------------------------------------------------------------
(* Elements and their order (Python's <= on int and on str).               *)

IntElem(n) == [ty |-> "int", v |-> n]
TextElem(s) == [ty |-> "text", v |-> s]

\* str <= str: code points compared left to right, a proper prefix is smaller
RECURSIVE str_le(_, _)
str_le(s, t) ==
    IF s = <<>> THEN TRUE
    ELSE IF t = <<>> THEN FALSE
    ELSE IF s[1] < t[1] THEN TRUE
    ELSE IF s[1] > t[1] THEN FALSE
    ELSE str_le(Tail(s), Tail(t))

\* x <= y for two ints or two strs
Leq(a, b) ==
    IF a.ty = "int" /\ b.ty = "int" THEN a.v <= b.v ELSE str_le(a.v, b.v)

\* hypothesis strategies integers() and text(), bounded
IntVals == {IntElem(n) : n \in 0..MaxVal}
TextVals == {TextElem(s) : s \in {<<>>, <<97>>, <<97, 98>>, <<98>>}}

ListsOf(S) == UNION {[1..n -> S] : n \in 0..MaxLen}
IntLists == ListsOf(IntVals)
TextLists == ListsOf(TextVals)

----------------------------------------------------------------------------
(* list.sort(): the built-in reference sort, as a stable insertion sort.   *)

RECURSIVE insert_sorted(_, _)
insert_sorted(x, s) ==
    IF s = <<>> THEN <<x>>
    ELSE IF Leq(s[1], x) THEN <<s[1]>> \o insert_sorted(x, Tail(s))
    ELSE <<x>> \o s

RECURSIVE list_sort(_)
list_sort(xs) ==
    IF xs = <<>> THEN <<>>
    ELSE insert_sorted(xs[Len(xs)], list_sort(SubSeq(xs, 1, Len(xs) - 1)))

----------------------------------------------------------------------------
(* Quicksort - I: partition and quicksort on the object store.             *)

\* r.append(x): the list object r grows in place
list_append(h, r, x) == [h EXCEPT ![r] = Append(@, x)]

\* mutant of partition_for: the comparison reversed (pivot <= x)
RECURSIVE partition_for_reversed(_, _, _, _, _, _)
partition_for_reversed(h, rest, i, pivot, le, gt) ==
    IF i > Len(h[rest]) THEN h
    ELSE IF Leq(pivot, h[rest][i])
         THEN partition_for_reversed(list_append(h, le, h[rest][i]),
                                     rest, i + 1, pivot, le, gt)
         ELSE partition_for_reversed(list_append(h, gt, h[rest][i]),
                                     rest, i + 1, pivot, le, gt)

\* mutant of partition_for: the comparison strict (x < pivot)
RECURSIVE partition_for_strict(_, _, _, _, _, _)
partition_for_strict(h, rest, i, pivot, le, gt) ==
    IF i > Len(h[rest]) THEN h
    ELSE IF ~Leq(pivot, h[rest][i])
         THEN partition_for_strict(list_append(h, le, h[rest][i]),
                                   rest, i + 1, pivot, le, gt)
         ELSE partition_for_strict(list_append(h, gt, h[rest][i]),
                                   rest, i + 1, pivot, le, gt)

\* the for loop of partition: rest is the slice xs[1:], i the next position
RECURSIVE partition_for(_, _, _, _, _, _)
partition_for(h, rest, i, pivot, le, gt) ==
    IF i > Len(h[rest]) THEN h
    ELSE IF Leq(h[rest][i], pivot)
         THEN partition_for(list_append(h, le, h[rest][i]),
                            rest, i + 1, pivot, le, gt)
         ELSE partition_for(list_append(h, gt, h[rest][i]),
                            rest, i + 1, pivot, le, gt)

\* mutant of partition: the pivot is popped off xs (pivot = xs.pop(0)) and
\* the loop runs over xs itself
partition_popping(h, xs) ==
    LET pivot == h[xs][1]
        le == Len(h) + 1
        gt == Len(h) + 2
        h1 == [h EXCEPT ![xs] = Tail(@)] \o << <<>>, <<>> >>
    IN  [heap |-> partition_for(h1, xs, 1, pivot, le, gt),
         le |-> le, pivot |-> pivot, gt |-> gt]

\* partition(xs): le and gt are new lists, xs[1:] is a new list
partition(h, xs) ==
    LET pivot == h[xs][1]
        le == Len(h) + 1
        gt == Len(h) + 2
        rest == Len(h) + 3
        h1 == h \o << <<>>, <<>>, Tail(h[xs]) >>
    IN  [heap |-> partition_for(h1, rest, 1, pivot, le, gt),
         le |-> le, pivot |-> pivot, gt |-> gt]

\* quicksort(xs): the empty list is returned as it is; otherwise the result
\* is the list built by the two + operations
RECURSIVE quicksort(_, _)
quicksort(h, xs) ==
    IF h[xs] = <<>> THEN [heap |-> h, ret |-> xs]
    ELSE LET p == partition(h, xs)
             a == quicksort(p.heap, p.le)
             h1 == Append(a.heap, <<p.pivot>>)
             h2 == Append(h1, h1[a.ret] \o h1[Len(h1)])
             b == quicksort(h2, p.gt)
             h3 == Append(b.heap, b.heap[Len(h2)] \o b.heap[b.ret])
         IN  [heap |-> h3, ret |-> Len(h3)]

----------------------------------------------------------------------------
(* Drivers: what a run does once the called function has returned.         *)

\* where control goes when the entered function is done: back to the @given
\* loop when the program runs as a whole, out of the run otherwise
Continue == IF entry = "main" THEN "given" ELSE "returned"

\* partition(xs), called on its own
Partition_Call ==
    /\ pc = "partition"
    /\ LET r == partition(heap, lst)
       IN  /\ heap' = r.heap
           /\ ret' = [le |-> r.le, pivot |-> r.pivot, gt |-> r.gt]
    /\ heap0' = heap
    /\ pc' = "returned"
    /\ UNCHANGED <<entry, exc, lst, q, stack, lastAcc, returned, orig>>
    /\ UNCHANGED <<mainVars, timerVars>>

\* test_quicksort, line 40: q = quicksort(lst)
TQ_Call ==
    /\ pc = "tq_call"
    /\ LET r == quicksort(heap, lst)
       IN  /\ heap' = r.heap
           /\ q' = r.ret
    /\ heap0' = heap
    /\ pc' = "tq_sort"
    /\ UNCHANGED <<entry, exc, lst, ret, stack, lastAcc, returned, orig>>
    /\ UNCHANGED <<mainVars, timerVars>>

\* test_quicksort, line 41: lst.sort()
TQ_Sort ==
    /\ pc = "tq_sort"
    /\ heap' = [heap EXCEPT ![lst] = list_sort(@)]
    /\ pc' = "tq_assert"
    /\ UNCHANGED <<entry, exc, lst, q, ret, stack, lastAcc, returned, orig, heap0>>
    /\ UNCHANGED <<mainVars, timerVars>>

\* the assert statement of a test: q == lst compares the two lists' values
assert_eq(a, b) == IF heap[a] = heap[b] THEN "" ELSE "AssertionError"

\* test_quicksort, line 42: assert (q == lst)
TQ_Assert ==
    /\ pc = "tq_assert"
    /\ exc' = assert_eq(q, lst)
    /\ pc' = IF exc' = "" THEN Continue ELSE "raised"
    /\ UNCHANGED <<entry, heap, lst, q, ret, stack, lastAcc, returned, orig, heap0>>
    /\ UNCHANGED <<mainVars, timerVars>>

----------------------------------------------------------------------------
(* Quicksort - II: prtn and qsrt_bounded, statement by statement.          *)

\* xs[i] is defined for -len(xs) <= i < len(xs); a negative i counts from
\* the end; any other i raises IndexError
ValidIdx(b, i) == 0 - Len(b) <= i /\ i < Len(b)
PyIdx(b, i) == IF i < 0 THEN i + Len(b) ELSE i
Item(b, i) == b[PyIdx(b, i) + 1]

\* xs[x], xs[y] = xs[y], xs[x]: both read, then xs[x] stored, then xs[y]
swap(b, x, y) ==
    [b EXCEPT ![PyIdx(b, x) + 1] = Item(b, y), ![PyIdx(b, y) + 1] = Item(b, x)]

\* the frame of a call fn(xs, lo, hi); calls and snap are history: the
\* recursive calls the frame has made and the buffer as it was at the call
Frame(fn, xs, lo, hi, b) ==
    [fn |-> fn, at |-> IF fn = "prtn" THEN "pivot" ELSE "if",
     xs |-> xs, lo |-> lo, hi |-> hi, pvt |-> 0, le |-> 0, i |-> 0, it |-> 0,
     calls |-> <<>>, snap |-> b]

NoFrame == [fn |-> "none"]

\* the indices a statement reads and the indices it writes
NoAccess == [rd |-> {}, wr |-> {}]
Read(S) == [rd |-> S, wr |-> {}]
Exchange(x, y) == [rd |-> {x, y}, wr |-> {x, y}]

Top == stack[Len(stack)]
Buf(f) == heap[f.xs]
SetTop(f) == [stack EXCEPT ![Len(stack)] = f]
Push(f, g) == Append(SetTop(f), g)
At(fn, at) == stack # <<>> /\ Top.fn = fn /\ Top.at = at

\* return v from the top frame; the caller of prtn stores v in its pvt
Return(v) ==
    /\ stack' = IF Len(stack) = 1 THEN <<>>
                ELSE IF Top.fn = "prtn"
                     THEN [SubSeq(stack, 1, Len(stack) - 1)
                             EXCEPT ![Len(stack) - 1].pvt = v]
                     ELSE SubSeq(stack, 1, Len(stack) - 1)
    /\ ret' = v
    /\ returned' = Top
    /\ lastAcc' = NoAccess
    /\ UNCHANGED <<entry, pc, exc, heap, lst, q, orig, heap0>>

\* an uncaught IndexError unwinds the whole stack and ends the run
IndexError ==
    /\ stack' = <<>> /\ exc' = "IndexError" /\ pc' = "raised"
    /\ lastAcc' = NoAccess /\ returned' = NoFrame
    /\ UNCHANGED <<entry, heap, lst, q, ret, orig, heap0>>

\* a statement of the top frame that goes on in the same frame
Step(f, b, acc) ==
    /\ stack' = SetTop(f)
    /\ heap' = [heap EXCEPT ![Top.xs] = b]
    /\ lastAcc' = acc /\ returned' = NoFrame
    /\ UNCHANGED <<entry, pc, exc, lst, q, ret, orig, heap0>>

\* line 73: pvt = xs[hi]
Prtn_Pivot ==
    /\ At("prtn", "pivot")
    /\ IF ValidIdx(Buf(Top), Top.hi)
       THEN Step([Top EXCEPT !.pvt = Item(Buf(Top), Top.hi), !.at = "init_le"],
                 Buf(Top), Read({Top.hi}))
       ELSE IndexError
    /\ UNCHANGED <<mainVars, timerVars>>

\* line 75: le = lo - 1
Prtn_InitLe ==
    /\ At("prtn", "init_le")
    /\ Step([Top EXCEPT !.le = Top.lo - 1, !.it = Top.lo, !.at = "for"],
            Buf(Top), NoAccess)
    /\ UNCHANGED <<mainVars, timerVars>>

\* line 78: for i in range(lo, hi); it is the next value of the range
Prtn_For ==
    /\ At("prtn", "for")
    /\ IF Top.it < Top.hi
       THEN Step([Top EXCEPT !.i = Top.it, !.it = Top.it + 1, !.at = "if"],
                 Buf(Top), NoAccess)
       ELSE Step([Top EXCEPT !.at = "final"], Buf(Top), NoAccess)
    /\ UNCHANGED <<mainVars, timerVars>>

\* mutant of Prtn_If: the comparison strict (xs[i] < pvt)
Prtn_If_strict ==
    /\ At("prtn", "if")
    /\ IF ValidIdx(Buf(Top), Top.i)
       THEN Step([Top EXCEPT !.at = IF ~Leq(Top.pvt, Item(Buf(Top), Top.i))
                                     THEN "swap" ELSE "for"],
                 Buf(Top), Read({Top.i}))
       ELSE IndexError
    /\ UNCHANGED <<mainVars, timerVars>>

\* line 80: if xs[i] <= pvt
Prtn_If ==
    /\ At("prtn", "if")
    /\ IF ValidIdx(Buf(Top), Top.i)
       THEN Step([Top EXCEPT !.at = IF Leq(Item(Buf(Top), Top.i), Top.pvt)
                                     THEN "swap" ELSE "for"],
                 Buf(Top), Read({Top.i}))
       ELSE IndexError
    /\ UNCHANGED <<mainVars, timerVars>>

\* mutant of Prtn_Swap: the exchange made before le is incremented
Prtn_Swap_before_increment ==
    /\ At("prtn", "swap")
    /\ IF ValidIdx(Buf(Top), Top.le) /\ ValidIdx(Buf(Top), Top.i)
       THEN Step([Top EXCEPT !.le = Top.le + 1, !.at = "for"],
                 swap(Buf(Top), Top.le, Top.i), Exchange(Top.le, Top.i))
       ELSE IndexError
    /\ UNCHANGED <<mainVars, timerVars>>

\* lines 83-84: le += 1; xs[le], xs[i] = xs[i], xs[le]
Prtn_Swap ==
    /\ At("prtn", "swap")
    /\ LET le == Top.le + 1
       IN  IF ValidIdx(Buf(Top), le) /\ ValidIdx(Buf(Top), Top.i)
           THEN Step([Top EXCEPT !.le = le, !.at = "for"],
                     swap(Buf(Top), le, Top.i), Exchange(le, Top.i))
           ELSE IndexError
    /\ UNCHANGED <<mainVars, timerVars>>

\* lines 88-89: le += 1; xs[le], xs[hi] = xs[hi], xs[le]
Prtn_Final ==
    /\ At("prtn", "final")
    /\ LET le == Top.le + 1
       IN  IF ValidIdx(Buf(Top), le) /\ ValidIdx(Buf(Top), Top.hi)
           THEN Step([Top EXCEPT !.le = le, !.at = "return"],
                     swap(Buf(Top), le, Top.hi), Exchange(le, Top.hi))
           ELSE IndexError
    /\ UNCHANGED <<mainVars, timerVars>>

\* line 92: return le
Prtn_Return ==
    /\ At("prtn", "return")
    /\ Return(Top.le)
    /\ UNCHANGED <<mainVars, timerVars>>

\* mutant of QB_If: the terminal test strict (lo > hi)
QB_If_strict ==
    /\ At("qsrt_bounded", "if")
    /\ IF Top.lo > Top.hi
       THEN Return(0)
       ELSE Step([Top EXCEPT !.at = "prtn"], Buf(Top), NoAccess)
    /\ UNCHANGED <<mainVars, timerVars>>

\* lines 97-98: if lo >= hi: return
QB_If ==
    /\ At("qsrt_bounded", "if")
    /\ IF Top.lo >= Top.hi
       THEN Return(0)
       ELSE Step([Top EXCEPT !.at = "prtn"], Buf(Top), NoAccess)
    /\ UNCHANGED <<mainVars, timerVars>>

\* a call made by the top frame, which goes on at `at` when the call returns
Call(at, fn, lo, hi) ==
    /\ stack' = Push([Top EXCEPT !.at = at,
                                 !.calls = IF fn = "prtn" THEN @
                                           ELSE Append(@, <<lo, hi>>)],
                     Frame(fn, Top.xs, lo, hi, Buf(Top)))
    /\ lastAcc' = NoAccess /\ returned' = NoFrame
    /\ UNCHANGED <<entry, pc, exc, heap, lst, q, ret, orig, heap0>>

\* line 99: pvt = prtn(xs, lo, hi)
QB_Prtn ==
    /\ At("qsrt_bounded", "prtn")
    /\ Call("left", "prtn", Top.lo, Top.hi)
    /\ UNCHANGED <<mainVars, timerVars>>

\* line 100: qsrt_bounded(xs, lo, pvt-1)
QB_Left ==
    /\ At("qsrt_bounded", "left")
    /\ Call("right", "qsrt_bounded", Top.lo, Top.pvt - 1)
    /\ UNCHANGED <<mainVars, timerVars>>

\* line 101: qsrt_bounded(xs, pvt+1, hi)
QB_Right ==
    /\ At("qsrt_bounded", "right")
    /\ Call("end", "qsrt_bounded", Top.pvt + 1, Top.hi)
    /\ UNCHANGED <<mainVars, timerVars>>

\* the end of qsrt_bounded's body: return None
QB_End ==
    /\ At("qsrt_bounded", "end")
    /\ Return(0)
    /\ UNCHANGED <<mainVars, timerVars>>

\* mutant of Qsrt: the upper bound one too small (len(xs) - 2)
Qsrt_short ==
    /\ pc \in {"qsrt", "tqs_qsrt"} /\ stack = <<>>
    /\ LET xs == IF pc = "qsrt" THEN lst ELSE q
       IN  stack' = <<Frame("qsrt_bounded", xs, 0, Len(heap[xs]) - 2, heap[xs])>>
    /\ pc' = IF pc = "qsrt" THEN "returned" ELSE "tqs_assert"
    /\ lastAcc' = NoAccess /\ returned' = NoFrame
    /\ UNCHANGED <<entry, exc, heap, lst, q, ret, orig, heap0>>
    /\ UNCHANGED <<mainVars, timerVars>>

\* line 105, qsrt(xs): qsrt_bounded(xs, 0, len(xs) - 1); called on its own
\* (on lst) or from test_qsrt line 115 (on q)
Qsrt ==
    /\ pc \in {"qsrt", "tqs_qsrt"} /\ stack = <<>>
    /\ LET xs == IF pc = "qsrt" THEN lst ELSE q
       IN  stack' = <<Frame("qsrt_bounded", xs, 0, Len(heap[xs]) - 1, heap[xs])>>
    /\ pc' = IF pc = "qsrt" THEN "returned" ELSE "tqs_assert"
    /\ lastAcc' = NoAccess /\ returned' = NoFrame
    /\ UNCHANGED <<entry, exc, heap, lst, q, ret, orig, heap0>>
    /\ UNCHANGED <<mainVars, timerVars>>

\* test_qsrt, line 113: q = lst.copy()
TQS_Copy ==
    /\ pc = "tqs_copy"
    /\ heap' = Append(heap, heap[lst])
    /\ q' = Len(heap) + 1
    /\ pc' = "tqs_sort"
    /\ UNCHANGED <<entry, exc, lst, ret, stack, lastAcc, returned, orig, heap0>>
    /\ UNCHANGED <<mainVars, timerVars>>

\* test_qsrt, line 114: lst.sort()
TQS_Sort ==
    /\ pc = "tqs_sort"
    /\ heap' = [heap EXCEPT ![lst] = list_sort(@)]
    /\ pc' = "tqs_qsrt"
    /\ UNCHANGED <<entry, exc, lst, q, ret, stack, lastAcc, returned, orig, heap0>>
    /\ UNCHANGED <<mainVars, timerVars>>

\* test_qsrt, line 116: assert (q == lst), once qsrt has returned
TQS_Assert ==
    /\ pc = "tqs_assert" /\ stack = <<>>
    /\ exc' = assert_eq(q, lst)
    /\ pc' = IF exc' = "" THEN Continue ELSE "raised"
    /\ UNCHANGED <<entry, heap, lst, q, ret, stack, lastAcc, returned, orig, heap0>>
    /\ UNCHANGED <<mainVars, timerVars>>

----------------------------------------------------------------------------
(* Benchmarking: timer and time_srt.  A generated sequence is known by its *)
(* identity, kind and length and by the calls made on it; the clock ticks  *)
(* once for every sequence generated and once for every call of sort.      *)

\* mutant of TimeitNumber: stmt executed twice
TimeitNumber_twice == 1 + 1

\* timer, line 170: number = 1
TimeitNumber == 1

\* the sequences generator(n, length) returns: gen_lists makes lists,
\* gen_arrays makes arrays of the same lengths
generate(g, n, length, first) ==
    [k \in 1..n |->
        [id |-> first + k, kind |-> IF g = "gen_arrays" THEN "array" ELSE "list",
         length |-> length, calls |-> <<>>, sorted |-> FALSE]]

\* sort(l) for one generated sequence l: qsrt sorts l itself, quicksort and
\* builtin_sort leave l as it is
apply_sort(f, l) ==
    [l EXCEPT !.calls = Append(@, f), !.sorted = @ \/ f = "qsrt"]

\* an entry of the history log
Event(ev, what) == [ev |-> ev, what |-> what]

\* the two kinds of line of the report
Header(f, g) == [algorithm |-> f, generator |-> g]
Row(length, t) == [length |-> length, time |-> t]

\* line 175: res = "Algorithm: {}, Random generator: {}\n"
TS_Header ==
    /\ pc = "ts_header"
    /\ res' = <<Header(sort, generator)>>
    /\ len_it' = minlen
    /\ pc' = "ts_for"
    /\ UNCHANGED <<sort, generator, n_lists, minlen, maxlen, len, lists, rep,
                   clock, t0, timing, nextId, stdout>>
    /\ UNCHANGED <<entry, exc, heap, lst, q, ret, stack, lastAcc, returned, orig,
                   heap0, mainVars>>

\* line 176: for len in range(minlen, maxlen + 1)
TS_For ==
    /\ pc = "ts_for"
    /\ IF len_it < maxlen + 1
       THEN len' = len_it /\ len_it' = len_it + 1 /\ pc' = "timer_setup"
       ELSE pc' = "ts_print" /\ UNCHANGED <<len, len_it>>
    /\ UNCHANGED <<sort, generator, n_lists, minlen, maxlen, lists, rep, res,
                   clock, t0, timing, nextId, stdout>>
    /\ UNCHANGED <<entry, exc, heap, lst, q, ret, stack, lastAcc, returned, orig,
                   heap0, mainVars>>

\* line 167, timeit's setup: lists = generator(n_lists, 2**len)
Timer_Setup ==
    /\ pc = "timer_setup"
    /\ lists' = generate(generator, n_lists, 2 ^ len, nextId)
    /\ nextId' = nextId + n_lists
    /\ clock' = clock + n_lists
    /\ pc' = "timer_start"
    /\ UNCHANGED <<sort, generator, n_lists, minlen, maxlen, len, rep, len_it,
                   res, t0, timing, stdout>>
    /\ UNCHANGED <<entry, exc, heap, lst, q, ret, stack, lastAcc, returned, orig,
                   heap0, mainVars>>

\* timeit reads the clock and starts executing stmt
Timer_Start ==
    /\ pc = "timer_start"
    /\ t0' = clock
    /\ timing' = timing + 1
    /\ rep' = 0
    /\ log' = Append(log, Event("measure", len))
    /\ pc' = "timer_stmt"
    /\ UNCHANGED <<sort, generator, n_lists, minlen, maxlen, len, lists, len_it,
                   res, clock, nextId, stdout>>
    /\ UNCHANGED <<entry, exc, heap, lst, q, ret, stack, lastAcc, returned, orig,
                   heap0, ti, ex>>

\* line 166, stmt: [ sort(l) for l in lists ]; stmt is executed again while
\* fewer than number executions are made
Timer_Stmt ==
    /\ pc = "timer_stmt"
    /\ lists' = [k \in DOMAIN lists |-> apply_sort(sort, lists[k])]
    /\ clock' = clock + Len(lists)
    /\ rep' = rep + 1
    /\ pc' = IF rep + 1 < TimeitNumber THEN "timer_stmt" ELSE "timer_stop"
    /\ UNCHANGED <<sort, generator, n_lists, minlen, maxlen, len, len_it, res, t0,
                   timing, nextId, stdout>>
    /\ UNCHANGED <<entry, exc, heap, lst, q, ret, stack, lastAcc, returned, orig,
                   heap0, mainVars>>

\* timeit reads the clock again and returns the difference: t = timer(...)
Timer_Stop ==
    /\ pc = "timer_stop"
    /\ ret' = clock - t0
    /\ timing' = timing - 1
    /\ pc' = "ts_row"
    /\ UNCHANGED <<sort, generator, n_lists, minlen, maxlen, len, lists, rep,
                   len_it, res, clock, t0, nextId, stdout>>
    /\ UNCHANGED <<entry, exc, heap, lst, q, stack, lastAcc, returned, orig,
                   heap0, mainVars>>

\* line 178: res = "{}length: {:4}\ttime: {:.7} s\n".format(res, 2**len, t)
TS_Row ==
    /\ pc = "ts_row"
    /\ res' = res \o <<Row(2 ^ len, ret)>>
    /\ pc' = "ts_for"
    /\ UNCHANGED <<sort, generator, n_lists, minlen, maxlen, len, lists, rep,
                   len_it, clock, t0, timing, nextId, stdout>>
    /\ UNCHANGED <<entry, exc, heap, lst, q, ret, stack, lastAcc, returned, orig,
                   heap0, mainVars>>

\* line 179: print(res); time_srt returns to run_timers or to its caller
TS_Print ==
    /\ pc = "ts_print"
    /\ stdout' = Append(stdout, res)
    /\ pc' = IF entry = "main" THEN "timers" ELSE "returned"
    /\ UNCHANGED <<sort, generator, n_lists, minlen, maxlen, len, lists, rep,
                   len_it, res, clock, t0, timing, nextId>>
    /\ UNCHANGED <<entry, exc, heap, lst, q, ret, stack, lastAcc, returned, orig,
                   heap0, mainVars>>

TimerStep ==
    \/ TS_Header \/ TS_For \/ Timer_Setup \/ Timer_Start \/ Timer_Stmt
    \/ Timer_Stop \/ TS_Row \/ TS_Print

----------------------------------------------------------------------------
(* The program: run_tests(), then run_timers().                            *)

\* line 174: the defaults of time_srt
DefaultNLists == 1000
DefaultMinLen == 0
DefaultMaxLen == 9

\* lines 130-133: the four tests, and what each @given draws
Tests ==
    << [name |-> "test_quicksort_text", fn |-> "test_quicksort", ty |-> "text"],
       [name |-> "test_quicksort_int", fn |-> "test_quicksort", ty |-> "int"],
       [name |-> "test_qsrt_text", fn |-> "test_qsrt", ty |-> "text"],
       [name |-> "test_qsrt_int", fn |-> "test_qsrt", ty |-> "int"] >>

\* lines 188-193 and 203-205: the timers run_timers calls, in order
Timers ==
    << [name |-> "time_qsrt_list", sort |-> "qsrt", generator |-> "gen_lists"],
       [name |-> "time_quicksort_list", sort |-> "quicksort",
        generator |-> "gen_lists"],
       [name |-> "time_builtin_sort_list", sort |-> "builtin_sort",
        generator |-> "gen_lists"] >>

\* mutant of MainBody: the two calls in the other order
MainBody_timers_first == <<"run_timers", "run_tests">>

\* lines 212-213: the statements of the program
MainBody == <<"run_tests", "run_timers">>

\* where the program goes on when statement k of MainBody is done
MainAt(k) == IF k <= Len(MainBody) THEN MainBody[k] ELSE "exit"
AfterMain(name) ==
    MainAt(1 + CHOOSE k \in 1..Len(MainBody) : MainBody[k] = name)

\* lists(text()) and lists(integers())
Strategy(ty) == IF ty = "text" THEN TextLists ELSE IntLists

\* run_tests is called
Run_Tests ==
    /\ pc = "run_tests"
    /\ ti' = 1 /\ ex' = 0
    /\ pc' = "given"
    /\ UNCHANGED <<entry, exc, heap, lst, q, ret, stack, lastAcc, returned, orig,
                   heap0, log, timerVars>>

\* @given: the test body is run on one more drawn list
Given_Example ==
    /\ pc = "given" /\ ex < MaxExamples
    /\ \E xs \in Strategy(Tests[ti].ty) :
          /\ heap' = <<xs>> /\ orig' = xs
    /\ lst' = 1 /\ q' = 0 /\ ret' = 0 /\ heap0' = <<>>
    /\ lastAcc' = NoAccess /\ returned' = NoFrame
    /\ ex' = ex + 1
    /\ pc' = IF Tests[ti].fn = "test_quicksort" THEN "tq_call" ELSE "tqs_copy"
    /\ UNCHANGED <<entry, exc, stack, ti, log, timerVars>>

\* @given: every example passed and the test's lists are dropped; run_tests
\* goes on to the next test, and returns after the last
Given_Done ==
    /\ pc = "given" /\ ex = MaxExamples
    /\ log' = Append(log, Event("passed", Tests[ti].name))
    /\ ex' = 0
    /\ IF ti < Len(Tests)
       THEN ti' = ti + 1 /\ pc' = "given"
       ELSE ti' = 0 /\ pc' = AfterMain("run_tests")
    /\ heap' = <<>> /\ lst' = 0 /\ q' = 0 /\ ret' = 0
    /\ orig' = <<>> /\ heap0' = <<>>
    /\ lastAcc' = NoAccess /\ returned' = NoFrame
    /\ UNCHANGED <<entry, exc, stack, timerVars>>

\* run_timers is called
Run_Timers ==
    /\ pc = "run_timers"
    /\ ti' = 1
    /\ pc' = "timers"
    /\ UNCHANGED <<entry, exc, heap, lst, q, ret, stack, lastAcc, returned, orig,
                   heap0, ex, log, timerVars>>

\* lines 203-205: the next timer calls time_srt(sort, generator) with the
\* defaults for n_lists, minlen and maxlen
Timers_Call ==
    /\ pc = "timers" /\ ti <= Len(Timers)
    /\ sort' = Timers[ti].sort /\ generator' = Timers[ti].generator
    /\ n_lists' = DefaultNLists
    /\ minlen' = DefaultMinLen /\ maxlen' = DefaultMaxLen
    /\ log' = Append(log, Event("timer", Timers[ti].name))
    /\ ti' = ti + 1
    /\ pc' = "ts_header"
    /\ UNCHANGED <<entry, exc, heap, lst, q, ret, stack, lastAcc, returned, orig,
                   heap0, ex>>
    /\ UNCHANGED <<len, lists, rep, len_it, res, clock, t0, timing, nextId,
                   stdout>>

\* run_timers returns
Timers_Return ==
    /\ pc = "timers" /\ ti > Len(Timers)
    /\ ti' = 0
    /\ pc' = AfterMain("run_timers")
    /\ UNCHANGED <<entry, exc, heap, lst, q, ret, stack, lastAcc, returned, orig,
                   heap0, ex, log, timerVars>>

----------------------------------------------------------------------------
(* Initial states.                                                         *)

MainIdle == ti = 0 /\ ex = 0 /\ log = <<>>

TimerIdle ==
    /\ sort = "" /\ generator = "" /\ n_lists = 0 /\ minlen = 0 /\ maxlen = 0
    /\ len = 0 /\ lists = <<>> /\ rep = 0 /\ len_it = 0
    /\ res = <<>> /\ clock = 0 /\ t0 = 0
    /\ timing = 0 /\ nextId = 0 /\ stdout = <<>>

\* a caller holding one list xs, about to call the function named e
Calling(e, xs, at) ==
    /\ entry = e /\ pc = at /\ exc = ""
    /\ heap = <<xs>> /\ lst = 1 /\ q = 0 /\ ret = 0
    /\ stack = <<>> /\ lastAcc = NoAccess /\ returned = NoFrame
    /\ orig = xs /\ heap0 = <<>>

InitQuicksort ==
    /\ \E xs \in IntLists \cup TextLists :
          \/ xs # <<>> /\ Calling("partition", xs, "partition")
          \/ Calling("test_quicksort", xs, "tq_call")
    /\ MainIdle /\ TimerIdle

NextQuicksort == Partition_Call \/ TQ_Call \/ TQ_Sort \/ TQ_Assert

SpecQuicksort == InitQuicksort /\ [][NextQuicksort]_vars

\* a caller that has just called fn(xs, lo, hi) on its list xs
Called(fn, xs, lo, hi) ==
    /\ entry = fn /\ pc = "returned" /\ exc = ""
    /\ heap = <<xs>> /\ lst = 1 /\ q = 0 /\ ret = 0
    /\ stack = <<Frame(fn, 1, lo, hi, xs)>>
    /\ lastAcc = NoAccess /\ returned = NoFrame /\ orig = xs /\ heap0 = <<>>

\* qsrt and test_qsrt on every list; qsrt_bounded on every pair of bounds
\* from one below the smallest index to one above the largest; prtn on every
\* non-empty range of positions
InitQsrt ==
    /\ \/ \E xs \in IntLists \cup TextLists :
             \/ Calling("qsrt", xs, "qsrt")
             \/ Calling("test_qsrt", xs, "tqs_copy")
       \/ \E xs \in IntLists :
             \/ \E lo, hi \in (0 - Len(xs) - 1)..Len(xs) :
                   Called("qsrt_bounded", xs, lo, hi)
             \/ \E lo, hi \in 0..(Len(xs) - 1) :
                   /\ lo <= hi
                   /\ Called("prtn", xs, lo, hi)
    /\ MainIdle /\ TimerIdle

InPlaceStep ==
    \/ Prtn_Pivot \/ Prtn_InitLe \/ Prtn_For \/ Prtn_If \/ Prtn_Swap
    \/ Prtn_Final \/ Prtn_Return
    \/ QB_If \/ QB_Prtn \/ QB_Left \/ QB_Right \/ QB_End

NextQsrt == InPlaceStep \/ Qsrt \/ TQS_Copy \/ TQS_Sort \/ TQS_Assert

SpecQsrt == InitQsrt /\ [][NextQsrt]_vars

\* the interpreter runs the next statement as long as there is one
SpecQsrtFair == SpecQsrt /\ WF_vars(NextQsrt)

\* time_srt called with a sort, a generator and a range of exponents
InitTimer ==
    /\ entry = "time_srt" /\ pc = "ts_header" /\ exc = ""
    /\ heap = <<>> /\ lst = 0 /\ q = 0 /\ ret = 0
    /\ stack = <<>> /\ lastAcc = NoAccess /\ returned = NoFrame
    /\ orig = <<>> /\ heap0 = <<>>
    /\ MainIdle
    /\ sort \in {"qsrt", "quicksort", "builtin_sort"}
    /\ generator \in {"gen_lists", "gen_arrays"}
    /\ n_lists \in 0..MaxNLists
    /\ minlen \in 0..MaxExp /\ maxlen \in 0..MaxExp
    /\ len = 0 /\ lists = <<>> /\ rep = 0 /\ len_it = 0
    /\ res = <<>> /\ clock = 0 /\ t0 = 0
    /\ timing = 0 /\ nextId = 0 /\ stdout = <<>>

SpecTimer == InitTimer /\ [][TimerStep]_vars

\* the program started: python divide_and_conquer.py
Init ==
    /\ entry = "main" /\ pc = MainAt(1) /\ exc = ""
    /\ heap = <<>> /\ lst = 0 /\ q = 0 /\ ret = 0
    /\ stack = <<>> /\ lastAcc = NoAccess /\ returned = NoFrame
    /\ orig = <<>> /\ heap0 = <<>>
    /\ MainIdle /\ TimerIdle

Next ==
    \/ Run_Tests \/ Given_Example \/ Given_Done
    \/ TQ_Call \/ TQ_Sort \/ TQ_Assert
    \/ TQS_Copy \/ TQS_Sort \/ Qsrt \/ InPlaceStep \/ TQS_Assert
    \/ Run_Timers \/ Timers_Call \/ TimerStep \/ Timers_Return

Spec == Init /\ [][Next]_vars


----------------------------------------------------------------------------
(* Properties.                                                             *)

IsSorted(s) == \A k \in 1..(Len(s) - 1) : Leq(s[k], s[k + 1])
Count(s, x) == Cardinality({k \in DOMAIN s : s[k] = x})
IsPerm(s, t) ==
    /\ Len(s) = Len(t)
    /\ \A k \in DOMAIN s : Count(s, s[k]) = Count(t, s[k])
HasDuplicate(s) == \E a, b \in DOMAIN s : a < b /\ s[a] = s[b]
\* the elements of s that are <= x (or not), in their order in s
Those(s, x, le) ==
    LET T(y) == Leq(y, x) = le
    IN  SelectSeq(s, T)
\* the part of buffer b at Python positions lo..hi
Range(b, lo, hi) == SubSeq(b, lo + 1, hi + 1)
Terminated == stack = <<>> /\ pc \in {"returned", "raised"}
\* the number of qsrt_bounded frames from position k of the stack upwards
DepthFrom(k) ==
    Cardinality({m \in k..Len(stack) : stack[m].fn = "qsrt_bounded"})

\* quicksort has returned to test_quicksort and lst.sort() has not yet run
QuicksortReturned == entry = "test_quicksort" /\ pc = "tq_sort"

\* C1: quicksort(S) is the reference sort of S, element by element: a
\* permutation of S in non-descending order.
C1_QuicksortIsReferenceSort ==
    QuicksortReturned =>
        /\ heap[q] = list_sort(orig)
        /\ IsPerm(heap[q], orig)
        /\ IsSorted(heap[q])

C1_Witness ==
    /\ QuicksortReturned
    /\ Len(orig) >= 3 /\ HasDuplicate(orig) /\ ~IsSorted(orig)
    /\ heap[q] # orig

\* C4: quicksort(S) leaves S, and every list that existed before the call,
\* with the contents and length it had before the call.
C4_QuicksortDoesNotMutate ==
    QuicksortReturned =>
        /\ heap[lst] = orig
        /\ Len(heap) >= Len(heap0)
        /\ \A r \in DOMAIN heap0 : heap[r] = heap0[r]

C4_Witness ==
    /\ QuicksortReturned
    /\ Len(orig) >= 2 /\ ~IsSorted(orig)
    /\ q # lst /\ Len(heap) > Len(heap0)

\* C5: partition(xs) on a non-empty xs returns (le, pivot, gt) with pivot =
\* xs[0], le the elements of xs[1:] that are <= pivot in their order, gt
\* those that are > pivot in their order; the two lengths add up to
\* len(xs) - 1 and a one-element xs gives two empty lists.
C5_PartitionResult ==
    (entry = "partition" /\ pc = "returned") =>
        /\ ret.pivot = orig[1]
        /\ heap[ret.le] = Those(Tail(orig), orig[1], TRUE)
        /\ heap[ret.gt] = Those(Tail(orig), orig[1], FALSE)
        /\ Len(heap[ret.le]) + Len(heap[ret.gt]) = Len(orig) - 1
        /\ Len(orig) = 1 => heap[ret.le] = <<>> /\ heap[ret.gt] = <<>>

C5_Witness ==
    /\ entry = "partition" /\ pc = "returned"
    /\ Len(orig) >= 3
    /\ \E k \in 2..Len(orig) : orig[k] = orig[1]
    /\ heap[ret.gt] # <<>>

\* C6: the list quicksort returns is another object than its argument, so
\* appending to the result leaves the argument as it was; for every input,
\* the empty list included.
C6_ResultIsNewObject ==
    QuicksortReturned =>
        /\ q # lst
        /\ \A x \in IntVals : list_append(heap, q, x)[lst] = orig

\* C2: when qsrt(B) has returned, B holds the reference sort of what it held
\* before: a permutation in non-descending order, of the same length.
C2_QsrtSortsBuffer ==
    /\ (entry = "qsrt" /\ Terminated) =>
          /\ exc = ""
          /\ heap[lst] = list_sort(orig)
          /\ IsPerm(heap[lst], orig) /\ IsSorted(heap[lst])
          /\ Len(heap[lst]) = Len(orig)
    /\ (entry = "test_qsrt" /\ pc = "tqs_assert" /\ stack = <<>>) =>
          /\ heap[q] = list_sort(orig)
          /\ IsPerm(heap[q], orig) /\ IsSorted(heap[q])

C2_Witness ==
    /\ entry = "qsrt" /\ Terminated
    /\ Len(orig) >= 3 /\ HasDuplicate(orig) /\ ~IsSorted(orig)
    /\ heap[lst] # orig

\* a call of fn with bounds 0 <= lo <= hi < len(xs) returned in the last step
JustReturned(fn) ==
    /\ returned.fn = fn
    /\ 0 <= returned.lo /\ returned.lo <= returned.hi
    /\ returned.hi < Len(returned.snap)

\* C3: prtn(xs, lo, hi) with lo <= hi returns p with lo <= p <= hi, xs[p] the
\* value xs[hi] had before the call, every element of [lo, p-1] <= it, every
\* element of [p+1, hi] > it, and [lo, hi] holding the same multiset as
\* before the call.
C3_PrtnPostcondition ==
    JustReturned("prtn") =>
        LET f == returned
            b == heap[f.xs]
            p == ret
            pivot == Item(f.snap, f.hi)
        IN  /\ f.lo <= p /\ p <= f.hi
            /\ Item(b, p) = pivot
            /\ \A k \in f.lo..(p - 1) : Leq(Item(b, k), pivot)
            /\ \A k \in (p + 1)..f.hi : ~Leq(Item(b, k), pivot)
            /\ IsPerm(Range(b, f.lo, f.hi), Range(f.snap, f.lo, f.hi))

C3_Witness ==
    /\ JustReturned("prtn")
    /\ returned.lo < ret /\ ret < returned.hi
    /\ \E k \in returned.lo..(ret - 1) :
          Item(heap[returned.xs], k) = Item(heap[returned.xs], ret)
    /\ heap[returned.xs] # returned.snap

\* the step a qsrt_bounded call with lo >= hi takes: it returns at once,
\* pushing no frame and touching no element
TerminalCallReturns ==
    (At("qsrt_bounded", "if") /\ Top.lo >= Top.hi) =>
        /\ stack' = SubSeq(stack, 1, Len(stack) - 1)
        /\ returned' = Top /\ Top.calls = <<>>
        /\ heap' = heap /\ lastAcc' = NoAccess

\* a returned qsrt_bounded call with lo < hi made exactly the two calls on
\* [lo, p-1] and [p+1, hi], both shorter than [lo, hi]
TwoRecursiveCalls ==
    (returned.fn = "qsrt_bounded" /\ returned.lo < returned.hi) =>
        LET f == returned
        IN  /\ f.calls = << <<f.lo, f.pvt - 1>>, <<f.pvt + 1, f.hi>> >>
            /\ \A k \in 1..2 :
                  f.calls[k][2] - f.calls[k][1] + 1 < f.hi - f.lo + 1

\* a qsrt_bounded frame is called by a qsrt_bounded frame with lo < hi, on
\* the range its caller recorded last
CalleeOfCaller ==
    \A k \in 2..Len(stack) :
        stack[k].fn = "qsrt_bounded" =>
            /\ stack[k - 1].fn = "qsrt_bounded"
            /\ stack[k - 1].lo < stack[k - 1].hi
            /\ stack[k - 1].calls # <<>>
            /\ <<stack[k].lo, stack[k].hi>>
                   = stack[k - 1].calls[Len(stack[k - 1].calls)]

\* below a call with lo < hi there are never more than hi - lo + 1 nested
\* qsrt_bounded calls, the call itself included
DepthBounded ==
    \A k \in DOMAIN stack :
        (stack[k].fn = "qsrt_bounded" /\ stack[k].lo < stack[k].hi) =>
            DepthFrom(k) <= stack[k].hi - stack[k].lo + 1

\* C9: qsrt_bounded terminates; a call with lo >= hi returns at once without
\* calling prtn or touching an element; a call with lo < hi makes exactly
\* two recursive calls, on [lo, p-1] and [p+1, hi], each on fewer positions,
\* and the recursion is never deeper than hi - lo + 1.
C9_QsrtBoundedTerminates ==
    /\ <>Terminated
    /\ [][TerminalCallReturns]_vars
    /\ [](TwoRecursiveCalls /\ CalleeOfCaller /\ DepthBounded)

C9_Witness ==
    /\ entry = "qsrt_bounded"
    /\ Len(stack) = 3 /\ DepthFrom(1) = 3
    /\ stack[1].hi - stack[1].lo + 1 = 3
    /\ Top.lo = 0 /\ Top.hi = 0 - 1

\* every index the last statement used lies in the range of every call that
\* is under way
AccessConfined ==
    \A k \in DOMAIN stack :
        lastAcc.rd \cup lastAcc.wr \subseteq stack[k].lo..stack[k].hi

\* le is incremented before it is used: an exchange in the loop is of le and
\* i with lo <= le <= i, the last exchange of le and hi with lo <= le <= hi
LeDiscipline ==
    /\ (At("prtn", "for") /\ lastAcc.wr # {}) =>
          /\ lastAcc = Exchange(Top.le, Top.i)
          /\ Top.lo <= Top.le /\ Top.le <= Top.i /\ Top.i < Top.hi
    /\ At("prtn", "return") =>
          /\ lastAcc = Exchange(Top.le, Top.hi)
          /\ Top.lo <= Top.le /\ Top.le <= Top.hi

\* a statement of prtn or qsrt_bounded changes the store only by exchanging
\* two elements of the buffer at positions in [lo, hi]
OnlySwaps ==
    (stack # <<>> /\ heap' # heap) =>
        \E x, y \in Top.lo..Top.hi :
            heap' = [heap EXCEPT ![Top.xs] = swap(Buf(Top), x, y)]

\* when a call returns the buffer has the length it had at the call and the
\* same elements outside [lo, hi]
FrameUnchanged(f) ==
    /\ Len(heap[f.xs]) = Len(f.snap)
    /\ \A k \in 0..(Len(f.snap) - 1) :
          k \notin f.lo..f.hi => Item(heap[f.xs], k) = Item(f.snap, k)

\* C10: during prtn(xs, lo, hi) and qsrt_bounded(xs, lo, hi) with
\* 0 <= lo <= hi < len(xs) every index read or written lies in [lo, hi], le is
\* incremented before it is used (lo <= le <= i at every exchange), every
\* change is an exchange of two elements, and at the return the elements
\* outside [lo, hi] and the length are as before the call.
C10_AccessConfinement ==
    /\ [](AccessConfined /\ LeDiscipline)
    /\ [][OnlySwaps]_vars
    /\ []((JustReturned("prtn") \/ JustReturned("qsrt_bounded"))
             => FrameUnchanged(returned))

C10_Witness ==
    /\ JustReturned("qsrt_bounded")
    /\ returned.lo = 1 /\ returned.hi = 2 /\ Len(returned.snap) >= 3
    /\ heap[returned.xs] # returned.snap

\* the entries of the log of one kind, in order
Events(ev) ==
    LET T(e) == e.ev = ev
        sel == SelectSeq(log, T)
    IN  [k \in 1..Len(sel) |-> sel[k].what]
\* the first n elements of s
Prefix(s, n) == SubSeq(s, 1, n)
IsPrefix(s, t) == Len(s) <= Len(t) /\ s = Prefix(t, Len(s))
\* the exponents time_srt goes through
Exponents == [k \in 1..(maxlen + 1 - minlen) |-> minlen + k - 1]
\* the report once n exponents are measured: every measurement lasted the
\* n_lists calls of its one batch
Report(n) ==
    <<Header(sort, generator)>>
        \o [k \in 1..n |-> Row(2 ^ Exponents[k], n_lists)]

\* one timing region at most, open exactly while stmt runs
NoOverlap ==
    /\ timing \in {0, 1}
    /\ timing = 1 <=> pc \in {"timer_stmt", "timer_stop"}

\* setup has made n_lists new sequences of length 2^len, none passed to sort yet
FreshBatch ==
    pc = "timer_start" =>
        /\ Len(lists) = n_lists
        /\ \A k \in DOMAIN lists :
              /\ lists[k].id = nextId - n_lists + k
              /\ lists[k].length = 2 ^ len
              /\ lists[k].calls = <<>> /\ ~lists[k].sorted

\* no sequence is passed to sort twice, and at the end of the measurement
\* each one was passed to sort once
SortedOnce ==
    /\ \A k \in DOMAIN lists : Len(lists[k].calls) <= 1
    /\ pc \in {"timer_stop", "ts_row"} =>
          \A k \in DOMAIN lists : lists[k].calls = <<sort>>

\* one measurement per exponent, in ascending order, and one row for each
\* measurement that is over, after the one header
OneRowPerExponent ==
    /\ IsPrefix(Events("measure"), Exponents)
    /\ pc \in {"ts_for", "timer_setup", "timer_start", "ts_print", "returned"}
          => res = Report(Len(Events("measure")))
    /\ pc \in {"timer_stmt", "timer_stop", "ts_row"}
          => res = Report(Len(Events("measure")) - 1)
    /\ pc \in {"ts_print", "returned"} => Events("measure") = Exponents

\* nothing is printed before the end, and then the whole report, once
PrintedOnce ==
    /\ pc # "returned" => stdout = <<>>
    /\ pc = "returned" => stdout = <<res>>

\* C7: time_srt makes exactly one measurement per exponent from minlen to
\* maxlen in ascending order: n_lists fresh sequences of length 2^k, sort
\* called exactly once on each, no two measurements overlapping, one row
\* (2^k, time) appended per exponent after the one header, and the report
\* printed once at the end.
C7_OneMeasurementPerExponent ==
    /\ NoOverlap
    /\ FreshBatch
    /\ SortedOnce
    /\ OneRowPerExponent
    /\ PrintedOnce

C7_Witness ==
    /\ entry = "time_srt" /\ pc = "returned"
    /\ n_lists >= 2 /\ maxlen - minlen >= 2
    /\ Len(res) = 4 /\ stdout = <<res>>

\* a benchmark has started
BenchmarkStarted ==
    \/ Events("timer") # <<>> \/ Events("measure") # <<>>
    \/ stdout # <<>> \/ nextId > 0
    \/ pc \in {"timers", "ts_header", "ts_for", "timer_setup", "timer_start",
               "timer_stmt", "timer_stop", "ts_row", "ts_print"}

TestNames == [k \in 1..Len(Tests) |-> Tests[k].name]
TimerNames == [k \in 1..Len(Timers) |-> Timers[k].name]

\* the tests pass in their order and the timers are called in theirs; a
\* benchmark starts only when the four tests have passed, the log then
\* showing the four tests before any timer; only lists are generated
ChecksThenBenchmarks ==
    /\ IsPrefix(Events("passed"), TestNames)
    /\ IsPrefix(Events("timer"), TimerNames)
    /\ TestNames = <<"test_quicksort_text", "test_quicksort_int",
                     "test_qsrt_text", "test_qsrt_int">>
    /\ TimerNames = <<"time_qsrt_list", "time_quicksort_list",
                      "time_builtin_sort_list">>
    /\ BenchmarkStarted =>
          /\ Events("passed") = TestNames
          /\ \A k \in 1..Len(Tests) : log[k] = Event("passed", TestNames[k])
          /\ exc = ""
          /\ Events("timer") # <<>> =>
                /\ sort = Timers[Len(Events("timer"))].sort
                /\ generator = "gen_lists"
          /\ \A k \in DOMAIN lists : lists[k].kind = "list"
    /\ pc = "exit" => Events("timer") = TimerNames /\ Len(stdout) = Len(Timers)

\* a failed check ends the run before any benchmark
FailureHalts == exc # "" => pc = "raised" /\ ~BenchmarkStarted

\* C8: run as a program, the four checks (quicksort on text, quicksort on
\* integers, qsrt on text, qsrt on integers) are over before any benchmark
\* starts, the benchmarks run in the order qsrt, quicksort, builtin_sort on
\* lists only, and a failed check halts the run with no benchmark started.
C8_ChecksBeforeBenchmarks ==
    /\ [](ChecksThenBenchmarks /\ FailureHalts)
    /\ [][exc = ""]_vars

C8_Witness ==
    /\ entry = "main" /\ pc = "exit" /\ exc = ""
    /\ Len(stdout) = 3
    /\ Events("passed") = TestNames /\ Events("timer") = TimerNames

====
